---- MODULE Spec2Model ----
(***************************************************************************)
(* Limb-based modular big-integer arithmetic of o1js-bigint                *)
(* (src/src/BigIntGeneric.ts, createBigIntClass).                          *)
(*                                                                         *)
(* Scaling.  TLC integers are 32 bits wide, so the parameter table is kept *)
(* exactly as bit counts (BigIntParams) and every entry is run on a scaled *)
(* layout (Scaled): limbs of ScaledLimbSize bits, at most LimbNumCap limbs,*)
(* MAX scaled in proportion to the limb capacity, and a native field of    *)
(* FieldPrime elements.  The scaling keeps the relations the code depends  *)
(* on: 2^(limb_size+1) < p (a limb sum never wraps the field), p < 2^(limb *)
(* capacity) (values are wider than a field element), and MAX below, equal *)
(* to or above the limb capacity exactly as in the source entry.           *)
(***************************************************************************)
EXTENDS Integers, Sequences, FiniteSets, TLC

VARIABLES params, regs, given, call, pc

vars == <<params, regs, given, call, pc>>

\* ---------------------------------------------------------------- bounds
LimbNumCap == 3
MaxInput == 8
MaxForgeInput == 2
MaxNegative == 2
MaxLawInput == 7

\* ------------------------------------------------------ scaled constants
ScaledLimbSize == 1
FieldPrime == 5
\* the field the range-check gadgets are run on: above 2^(widest limb)
GadgetPrime == 521

\* ------------------------------------------------------------ arithmetic
RECURSIVE Pow2(_)
Pow2(n) == IF n <= 0 THEN 1 ELSE 2 * Pow2(n - 1)

\* x & y on non-negative bigints
RECURSIVE BitAnd(_, _)
BitAnd(x, y) ==
    IF x = 0 \/ y = 0 THEN 0
    ELSE (IF x % 2 = 1 /\ y % 2 = 1 THEN 1 ELSE 0) + 2 * BitAnd(x \div 2, y \div 2)

\* x | y on non-negative bigints
RECURSIVE BitOr(_, _)
BitOr(x, y) ==
    IF x = 0 THEN y
    ELSE IF y = 0 THEN x
    ELSE (IF x % 2 = 1 \/ y % 2 = 1 THEN 1 ELSE 0) + 2 * BitOr(x \div 2, y \div 2)

\* x >> k and x << k on non-negative bigints
ShiftRight(x, k) == x \div Pow2(k)
ShiftLeft(x, k) == x * Pow2(k)

\* bigint / and % of JavaScript: truncation toward zero, remainder with the
\* sign of the dividend (divisor > 0 here; a zero divisor throws before)
JsDiv(x, y) == IF x >= 0 THEN x \div y ELSE -((-x) \div y)
JsRem(x, y) == IF x >= 0 THEN x % y ELSE -((-x) % y)

\* ---------------------------------------------------- native field (o1js)
FieldElems == 0 .. (FieldPrime - 1)
FieldFrom(x) == x % FieldPrime
FAdd(x, y) == (x + y) % FieldPrime
FSub(x, y) == (x + FieldPrime - y) % FieldPrime
FMul(x, y) == (x * y) % FieldPrime
FInv(y) == CHOOSE z \in FieldElems : (y * z) % FieldPrime = 1
FDiv(x, y) == FMul(x, FInv(y))
\* Field.greaterThan / lessThan on constants compare canonical representatives
FGreaterThan(x, y) == x > y
FLessThan(x, y) == x < y
BoolToField(b) == IF b THEN 1 ELSE 0

\* ------------------------------------------------------- parameter table
\* Entry of the source table as bit counts: mask == 2^mask_bits - 1 and
\* MAX == 2^max_bits - 1.
Param(n, l, mb, xb) == [limb_num |-> n, limb_size |-> l, mask_bits |-> mb, max_bits |-> xb]

BigIntParamList ==
    {"384_12", "384_9", "384_6", "384_3", "384_2", "512_16", "512_8", "512_4",
     "576_9", "1024_16", "1024_8", "2048_18", "2048_16", "2048_8"}

BigIntParams(key) ==
    CASE key = "384_12"  -> Param(12, 32, 32, 384)
      [] key = "384_9"   -> Param(9, 48, 48, 384)
      [] key = "384_6"   -> Param(6, 64, 64, 384)
      [] key = "384_3"   -> Param(3, 128, 128, 384)
      [] key = "384_2"   -> Param(2, 192, 192, 384)
      [] key = "512_16"  -> Param(16, 32, 32, 512)
      [] key = "512_8"   -> Param(8, 64, 64, 512)
      [] key = "512_4"   -> Param(4, 128, 128, 512)
      [] key = "576_9"   -> Param(9, 64, 64, 512)
      [] key = "1024_16" -> Param(16, 64, 64, 1024)
      [] key = "1024_8"  -> Param(8, 128, 128, 1024)
      [] key = "2048_18" -> Param(18, 116, 116, 2088)
      [] key = "2048_16" -> Param(16, 64, 64, 2048)
      [] key = "2048_8"  -> Param(8, 128, 128, 2048)

\* The layout an entry is run on.  width keeps the source limb_size (the
\* value rangeCheck dispatches on); limb_size, mask and MAX are scaled.
Scaled(p) ==
    LET n == IF p.limb_num > LimbNumCap THEN LimbNumCap ELSE p.limb_num
        l == (p.mask_bits * ScaledLimbSize) \div p.limb_size
        w == (p.max_bits * n * ScaledLimbSize) \div (p.limb_num * p.limb_size)
    IN  [limb_num |-> n, limb_size |-> ScaledLimbSize, width |-> p.limb_size,
         mask |-> Pow2(l) - 1, MAX |-> Pow2(w) - 1]

ScaledParams == {Scaled(BigIntParams(k)) : k \in BigIntParamList}

\* bits the limbs of a layout can hold
Capacity(pr) == pr.limb_num * pr.limb_size

\* ------------------------------------------------------------ BigIntValue
NoValue == [fields |-> <<>>, value |-> 0]
BigIntValue(f, v) == [fields |-> f, value |-> v]

\* outcome of a call: a returned value (ret, and rem for div), a returned
\* plain integer or boolean, or a thrown error
Returned(v) == [status |-> "ok", err |-> "", bits |-> 0, ret |-> v, rem |-> NoValue]
Returned2(q, r) == [status |-> "ok", err |-> "", bits |-> 0, ret |-> q, rem |-> r]
Thrown(e, n) == [status |-> "error", err |-> e, bits |-> n, ret |-> NoValue, rem |-> NoValue]

\* ------------------------------------------------------------ limb codec
RECURSIVE FromBigintFields(_, _, _)
FromBigintFields(pr, x, k) ==
    IF k = 0 THEN <<>>
    ELSE <<FieldFrom(BitAnd(x, pr.mask))>>
         \o FromBigintFields(pr, ShiftRight(x, pr.limb_size), k - 1)

\* fromBigint with the upper bound test off by one
FromBigintOffByOne(pr, x) ==
    IF x < 0 THEN Thrown("Input must be non-negative.", 0)
    ELSE IF x >= pr.MAX THEN Thrown("Input exceeds N-bit size limit.", Capacity(pr))
    ELSE Returned(BigIntValue(FromBigintFields(pr, x, pr.limb_num), x))

FromBigint(pr, x) ==
    IF x < 0 THEN Thrown("Input must be non-negative.", 0)
    ELSE IF x > pr.MAX THEN Thrown("Input exceeds N-bit size limit.", Capacity(pr))
    ELSE Returned(BigIntValue(FromBigintFields(pr, x, pr.limb_num), x))

\* limb i of the model is fields[i-1] of the code
RECURSIVE ToBigintFrom(_, _, _, _)
ToBigintFrom(pr, f, i, result) ==
    IF i > pr.limb_num THEN result
    ELSE ToBigintFrom(pr, f, i + 1,
                      BitOr(result, ShiftLeft(f[i], pr.limb_size * (i - 1))))

ToBigint(pr, v) == ToBigintFrom(pr, v.fields, 1, 0)

\* ------------------------------------------------------------ range check
\* rangeCheck(x, bits) dispatches on the limb width; the gadget of a listed
\* width accepts x exactly when x fits the limb, an unlisted width checks
\* nothing.
rangeCheck(pr, x) ==
    IF pr.width \in {32, 48, 64, 116, 128, 192} THEN x <= pr.mask ELSE TRUE

AllRangeChecked(pr, f) == \A i \in 1 .. Len(f) : rangeCheck(pr, f[i])

\* -------------------------------------------------------------------- add
\* first loop: limb-wise sum with carry
RECURSIVE AddCarryPass(_, _, _, _, _)
AddCarryPass(pr, af, bf, i, carry) ==
    IF i > pr.limb_num THEN <<>>
    ELSE LET sum == FAdd(FAdd(af[i], bf[i]), carry)
             c   == BoolToField(FGreaterThan(sum, FieldFrom(pr.mask)))
         IN  <<FSub(sum, FMul(c, FieldFrom(pr.mask + 1)))>>
             \o AddCarryPass(pr, af, bf, i + 1, c)

\* second loop: the flag that decides the subtraction of the modulus
RECURSIVE AddIsGreaterOrEqual(_, _, _, _, _)
AddIsGreaterOrEqual(pr, f, tf, i, acc) ==
    IF i > pr.limb_num THEN acc
    ELSE LET isGreater == FGreaterThan(f[i], tf[i])
             isEqual   == f[i] = tf[i]
         IN  AddIsGreaterOrEqual(pr, f, tf, i + 1,
                                 (acc \/ isGreater) \/ (isEqual /\ acc))

\* third loop: conditional subtraction of the modulus
RECURSIVE AddBorrowPass(_, _, _, _, _, _)
AddBorrowPass(pr, f, tf, ge, i, borrow) ==
    IF i > pr.limb_num THEN <<>>
    ELSE LET diff == FSub(FSub(f[i], FMul(tf[i], BoolToField(ge))), borrow)
             bw   == BoolToField(FLessThan(diff, FieldFrom(0)))
         IN  <<FAdd(diff, FMul(bw, FieldFrom(pr.mask + 1)))>>
             \o AddBorrowPass(pr, f, tf, ge, i + 1, bw)

\* add whose third loop reads the limbs of a in place of the limb sums
AddFromLeftOperand(pr, this, a, b) ==
    LET sums == AddCarryPass(pr, a.fields, b.fields, 1, 0)
        ge   == AddIsGreaterOrEqual(pr, sums, this.fields, 1, FALSE)
        f    == AddBorrowPass(pr, a.fields, this.fields, ge, 1, 0)
    IN  IF ~AllRangeChecked(pr, sums) THEN Thrown("rangeCheck", 0)
        ELSE IF this.value = 0 THEN Thrown("Division by zero", 0)
        ELSE Returned(BigIntValue(f, JsRem(a.value + b.value, this.value)))

Add(pr, this, a, b) ==
    LET sums == AddCarryPass(pr, a.fields, b.fields, 1, 0)
        ge   == AddIsGreaterOrEqual(pr, sums, this.fields, 1, FALSE)
        f    == AddBorrowPass(pr, sums, this.fields, ge, 1, 0)
    IN  IF ~AllRangeChecked(pr, sums) THEN Thrown("rangeCheck", 0)
        ELSE IF this.value = 0 THEN Thrown("Division by zero", 0)
        ELSE Returned(BigIntValue(f, JsRem(a.value + b.value, this.value)))

\* -------------------------------------------------------------------- sub
\* sub with the borrow test of add (diff < 0, never true of a field element)
RECURSIVE SubBorrowPassLessThanZero(_, _, _, _, _)
SubBorrowPassLessThanZero(pr, af, bf, i, borrow) ==
    IF i > pr.limb_num THEN <<>>
    ELSE LET diff == FSub(FSub(af[i], bf[i]), borrow)
             bw   == BoolToField(FLessThan(diff, FieldFrom(0)))
         IN  <<FAdd(diff, FMul(bw, FieldFrom(pr.mask + 1)))>>
             \o SubBorrowPassLessThanZero(pr, af, bf, i + 1, bw)

RECURSIVE SubBorrowPass(_, _, _, _, _)
SubBorrowPass(pr, af, bf, i, borrow) ==
    IF i > pr.limb_num THEN <<>>
    ELSE LET diff == FSub(FSub(af[i], bf[i]), borrow)
             bw   == BoolToField(~FLessThan(diff, FieldFrom(pr.mask + 1)))
         IN  <<FAdd(diff, FMul(bw, FieldFrom(pr.mask + 1)))>>
             \o SubBorrowPass(pr, af, bf, i + 1, bw)

Sub(pr, this, a, b) ==
    LET f == SubBorrowPass(pr, a.fields, b.fields, 1, 0)
    IN  IF ~AllRangeChecked(pr, f) THEN Thrown("rangeCheck", 0)
        ELSE IF this.value = 0 THEN Thrown("Division by zero", 0)
        ELSE Returned(BigIntValue(f, JsRem(a.value - b.value, this.value)))

\* ----------------------------------------------------------------- equals
\* equals that compares the shadow as well
EqualsWithShadow(a, b) ==
    /\ Len(a.fields) = Len(b.fields)
    /\ \A i \in 1 .. Len(a.fields) : a.fields[i] = b.fields[i]
    /\ a.value = b.value

\* Provable.equal over the struct: the limbs only, value holds no field
Equals(a, b) ==
    /\ Len(a.fields) = Len(b.fields)
    /\ \A i \in 1 .. Len(a.fields) : a.fields[i] = b.fields[i]

\* -------------------------------------------------------------------- mul
\* the witness block: q and r from the plain integers of the operands
MulWitness(pr, this, a, b) ==
    LET xy == ToBigint(pr, a) * ToBigint(pr, b)
        p0 == ToBigint(pr, this)
    IN  IF p0 = 0 THEN Thrown("Division by zero", 0)
        ELSE LET q  == JsDiv(xy, p0)
                 r  == xy - q * p0
                 qv == FromBigint(pr, q)
                 rv == FromBigint(pr, r)
             IN  IF qv.status = "error" THEN qv
                 ELSE IF rv.status = "error" THEN rv
                 ELSE Returned2(qv.ret, rv.ret)

\* sum over i of X[i]*Y[k-i] - Q[i]*P[k-i], position k counted from 0
RECURSIVE DeltaTerms(_, _, _, _, _, _, _)
DeltaTerms(pr, X, Y, Q, P, k, i) ==
    IF i >= pr.limb_num THEN 0
    ELSE LET j    == k - i
             term == IF j >= 0 /\ j < pr.limb_num
                     THEN FSub(FMul(X[i + 1], Y[j + 1]), FMul(Q[i + 1], P[j + 1]))
                     ELSE 0
         IN  FAdd(term, DeltaTerms(pr, X, Y, Q, P, k, i + 1))

\* delta without the subtraction of R
MulDeltaNoRemainder(pr, X, Y, Q, R, P) ==
    [k \in 1 .. (2 * pr.limb_num - 1) |-> DeltaTerms(pr, X, Y, Q, P, k - 1, 0)]

\* delta[k-1] of the code, for k in 1 .. 2*limb_num - 1
MulDelta(pr, X, Y, Q, R, P) ==
    [k \in 1 .. (2 * pr.limb_num - 1) |->
        LET d == DeltaTerms(pr, X, Y, Q, P, k - 1, 0)
        IN  IF k <= pr.limb_num THEN FSub(d, R[k]) ELSE d]

\* the carries the prover computes: field division by 2^limb_size
RECURSIVE MulCarries(_, _, _, _)
MulCarries(pr, delta, i, carry) ==
    IF i > 2 * pr.limb_num - 2 THEN <<>>
    ELSE LET deltaPlusCarry == FAdd(delta[i], carry)
             c == FDiv(deltaPlusCarry, FieldFrom(Pow2(pr.limb_size)))
         IN  <<c>> \o MulCarries(pr, delta, i + 1, c)

\* the assertions of the carry chain for given carries
MulAsserts(pr, delta, carries) ==
    LET last  == 2 * pr.limb_num - 1
        cin(i) == IF i = 1 THEN 0 ELSE carries[i - 1]
    IN  /\ \A i \in 1 .. (last - 1) :
              FAdd(delta[i], cin(i)) = FMul(carries[i], FieldFrom(Pow2(pr.limb_size)))
        /\ FAdd(delta[last], cin(last)) = 0

Mul(pr, this, a, b) ==
    LET w == MulWitness(pr, this, a, b)
    IN  IF w.status = "error" THEN w
        ELSE LET delta == MulDelta(pr, a.fields, b.fields, w.ret.fields,
                                   w.rem.fields, this.fields)
             IN  IF MulAsserts(pr, delta, MulCarries(pr, delta, 1, 0))
                 THEN Returned(w.rem)
                 ELSE Thrown("assertEquals", 0)

\* -------------------------------------------------------------- div, mod
\* div witness whose remainder is left one divisor too large
DivWitnessUnreduced(pr, a, b) ==
    LET x == ToBigint(pr, a)
        y == ToBigint(pr, b)
    IN  IF y = 0 THEN Thrown("Division by zero", 0)
        ELSE LET r0 == JsRem(x, y)
                 q0 == JsDiv(x - r0, y)
                 r  == IF q0 >= 1 THEN r0 + y ELSE r0
                 q  == IF q0 >= 1 THEN q0 - 1 ELSE q0
                 qv == FromBigint(pr, q)
                 rv == FromBigint(pr, r)
             IN  IF qv.status = "error" THEN qv
                 ELSE IF rv.status = "error" THEN rv
                 ELSE Returned2(qv.ret, rv.ret)

DivWitness(pr, a, b) ==
    LET x == ToBigint(pr, a)
        y == ToBigint(pr, b)
    IN  IF y = 0 THEN Thrown("Division by zero", 0)
        ELSE LET r  == JsRem(x, y)
                 q  == JsDiv(x - r, y)
                 qv == FromBigint(pr, q)
                 rv == FromBigint(pr, r)
             IN  IF qv.status = "error" THEN qv
                 ELSE IF rv.status = "error" THEN rv
                 ELSE Returned2(qv.ret, rv.ret)

Div(pr, this, a, b) ==
    LET w == DivWitness(pr, a, b)
    IN  IF w.status = "error" THEN w
        ELSE LET qb == Mul(pr, this, w.ret, b)
             IN  IF qb.status = "error" THEN qb
                 ELSE LET s == Add(pr, this, qb.ret, w.rem)
                      IN  IF s.status = "error" THEN s
                          ELSE IF Equals(s.ret, a) THEN Returned2(w.ret, w.rem)
                          ELSE Thrown("assertTrue", 0)

Mod(pr, this, a) ==
    LET d == Div(pr, this, a, this)
    IN  IF d.status = "error" THEN d ELSE Returned(d.rem)

\* ------------------------------------------------------------ comparators
\* greaterThan with a fold in which any greater limb decides
RECURSIVE GreaterFoldAnyLimb(_, _, _, _, _)
GreaterFoldAnyLimb(pr, af, bf, i, result) ==
    IF i > pr.limb_num THEN result
    ELSE GreaterFoldAnyLimb(pr, af, bf, i + 1, result \/ FGreaterThan(af[i], bf[i]))

RECURSIVE GreaterFold(_, _, _, _, _)
GreaterFold(pr, af, bf, i, result) ==
    IF i > pr.limb_num THEN result
    ELSE LET isGreater == FGreaterThan(af[i], bf[i])
             isEqual   == af[i] = bf[i]
         IN  GreaterFold(pr, af, bf, i + 1, isGreater \/ (result /\ isEqual))

RECURSIVE LessFold(_, _, _, _, _)
LessFold(pr, af, bf, i, result) ==
    IF i > pr.limb_num THEN result
    ELSE LET isLess  == FLessThan(af[i], bf[i])
             isEqual == af[i] = bf[i]
         IN  LessFold(pr, af, bf, i + 1, isLess \/ (result /\ isEqual))

GreaterThan(pr, a, b) == GreaterFold(pr, a.fields, b.fields, 1, FALSE)
GreaterThanOrEqual(pr, a, b) == GreaterFold(pr, a.fields, b.fields, 1, FALSE) \/ Equals(a, b)
LessThan(pr, a, b) == LessFold(pr, a.fields, b.fields, 1, FALSE)
\* lessThanOrEqual without the equals disjunct
LessThanOrEqualStrict(pr, a, b) == LessFold(pr, a.fields, b.fields, 1, FALSE)

LessThanOrEqual(pr, a, b) == LessFold(pr, a.fields, b.fields, 1, FALSE) \/ Equals(a, b)

\* ------------------------------------------------------------------ state
\* The caller builds a modulus and two operands with fromBigint, in this
\* order, and then calls one operation on them (the pattern of every test).
\* pc is the caller's position: "build" while values are missing, "call"
\* once all three exist, "done" after the operation came back.
Regs == {"this", "a", "b"}
RegOrder == <<"this", "a", "b">>

Built == \A r \in Regs : regs[r] # NoValue

NextReg == CHOOSE i \in 1 .. 3 :
               /\ regs[RegOrder[i]] = NoValue
               /\ \A j \in 1 .. (i - 1) : regs[RegOrder[j]] # NoValue

\* integers handed to fromBigint: everything up to MaxInput and the edge of MAX
InputSet(pr) ==
    {x \in (-MaxNegative) .. (MaxInput + 1) : x <= pr.MAX + 1}
    \cup {pr.MAX - 1, pr.MAX, pr.MAX + 1}

NoCall == [op |-> "new", arg |-> "", x |-> 0, out |-> Thrown("", 0), num |-> 0, flag |-> FALSE]
ValueCall(o, res) == [op |-> o, arg |-> "", x |-> 0, out |-> res, num |-> 0, flag |-> FALSE]
BoolCall(o, f) == [op |-> o, arg |-> "", x |-> 0, out |-> Returned(NoValue), num |-> 0, flag |-> f]

Init ==
    /\ params \in ScaledParams
    /\ regs = [r \in Regs |-> NoValue]
    /\ given = [r \in Regs |-> 0]
    /\ call = NoCall
    /\ pc = "build"

\* r = ProvableBigInt.fromBigint(x)
FromBigintCall ==
    /\ pc = "build"
    /\ \E x \in InputSet(params) :
          LET r   == RegOrder[NextReg]
              res == FromBigint(params, x)
          IN  /\ call' = [NoCall EXCEPT !.op = "fromBigint", !.arg = r, !.x = x, !.out = res]
              /\ regs' = IF res.status = "ok" THEN [regs EXCEPT ![r] = res.ret] ELSE regs
              /\ given' = IF res.status = "ok" THEN [given EXCEPT ![r] = x] ELSE given
              /\ pc' = IF res.status = "ok" /\ r = RegOrder[3] THEN "call" ELSE "build"
    /\ UNCHANGED params

CanCall == Built /\ pc = "call"

Invoke(c) ==
    /\ CanCall
    /\ call' = c
    /\ pc' = "done"
    /\ UNCHANGED <<params, regs, given>>

\* r.toBigint()
ToBigintCall ==
    \E r \in Regs :
        Invoke([NoCall EXCEPT !.op = "toBigint", !.arg = r, !.out = Returned(NoValue),
                              !.num = ToBigint(params, regs[r])])

AddCall == Invoke(ValueCall("add", Add(params, regs["this"], regs["a"], regs["b"])))
SubCall == Invoke(ValueCall("sub", Sub(params, regs["this"], regs["a"], regs["b"])))
MulCall == Invoke(ValueCall("mul", Mul(params, regs["this"], regs["a"], regs["b"])))
DivCall == Invoke(ValueCall("div", Div(params, regs["this"], regs["a"], regs["b"])))
ModCall == Invoke(ValueCall("mod", Mod(params, regs["this"], regs["a"])))
GreaterThanCall == Invoke(BoolCall("greaterThan", GreaterThan(params, regs["a"], regs["b"])))
GreaterThanOrEqualCall ==
    Invoke(BoolCall("greaterThanOrEqual", GreaterThanOrEqual(params, regs["a"], regs["b"])))
LessThanCall == Invoke(BoolCall("lessThan", LessThan(params, regs["a"], regs["b"])))
LessThanOrEqualCall ==
    Invoke(BoolCall("lessThanOrEqual", LessThanOrEqual(params, regs["a"], regs["b"])))
EqualsCall == Invoke(BoolCall("equals", Equals(regs["a"], regs["b"])))

Next ==
    \/ FromBigintCall
    \/ ToBigintCall
    \/ AddCall
    \/ SubCall
    \/ MulCall
    \/ DivCall
    \/ ModCall
    \/ GreaterThanCall
    \/ GreaterThanOrEqualCall
    \/ LessThanCall
    \/ LessThanOrEqualCall
    \/ EqualsCall

Spec == Init /\ [][Next]_vars

\* ------------------------------------------- soundness of the mul checks
\* A prover is free in the witnesses: q and r come out of Provable.witness
\* and every carry out of Provable.witness(Field, ...); nothing but the
\* assertions of mul binds them.  The operands are fromBigint values.
ForgeInputs(pr) == {x \in 0 .. MaxForgeInput : x <= pr.MAX}

\* values with every limb in [0, mask]
LimbValues(pr) ==
    {BigIntValue(FromBigintFields(pr, x, pr.limb_num), x) : x \in 0 .. (Pow2(Capacity(pr)) - 1)}

\* some assignment of the carries satisfies the assertions from position i on
RECURSIVE ChainSatisfiable(_, _, _, _)
ChainSatisfiable(pr, delta, i, carry) ==
    IF i > 2 * pr.limb_num - 2 THEN FAdd(delta[i], carry) = 0
    ELSE \E c \in FieldElems :
            /\ FAdd(delta[i], carry) = FMul(c, FieldFrom(Pow2(pr.limb_size)))
            /\ ChainSatisfiable(pr, delta, i + 1, c)

MulAccepts(pr, this, a, b, q, r) ==
    ChainSatisfiable(pr, MulDelta(pr, a.fields, b.fields, q.fields, r.fields, this.fields), 1, 0)

InitForge ==
    /\ params \in ScaledParams
    /\ given \in [Regs -> ForgeInputs(params)]
    /\ regs = [r \in Regs |-> FromBigint(params, given[r]).ret]
    /\ call = NoCall
    /\ pc = "call"

\* mul run by a prover that supplies q and r of its own choice
MulForge ==
    /\ CanCall
    /\ \E q \in LimbValues(params), r \in LimbValues(params) :
          call' = ValueCall("mulForge",
                      IF MulAccepts(params, regs["this"], regs["a"], regs["b"], q, r)
                      THEN Returned2(q, r) ELSE Thrown("assertEquals", 0))
    /\ pc' = "done"
    /\ UNCHANGED <<params, regs, given>>

NextForge == MulForge

SpecForge == InitForge /\ [][NextForge]_vars

\* ---------------------------------------------------- constraint context
\* Inside a circuit every Field expression is a fresh variable and every
\* range-check gadget appends a constraint on the variable it is handed.  A
\* variable is named by the source line of the statement that creates it,
\* the name it is bound to, and the limb index.
Var(line, name, i) == <<line, name, i>>

\* rangeCheck(x, bits): one constraint on x for a listed width, none otherwise
RangeCheckConstraint(pr, v) ==
    IF pr.width \in {32, 48, 64, 116, 128, 192}
    THEN <<[gadget |-> "rangeCheck", bits |-> pr.width, var |-> v]>>
    ELSE <<>>

\* add: the first loop pushes fields[i] and range-checks it; the third loop
\* assigns fields[i] anew and the value is built from these
RECURSIVE AddContext(_, _)
AddContext(pr, i) ==
    IF i > pr.limb_num THEN <<>>
    ELSE RangeCheckConstraint(pr, Var(139, "fields", i - 1)) \o AddContext(pr, i + 1)

AddLimbs(pr) == {Var(154, "fields", i - 1) : i \in 1 .. pr.limb_num}

\* sub: the loop pushes fields[i], range-checks it, and the value is built
\* from these
RECURSIVE SubContext(_, _)
SubContext(pr, i) ==
    IF i > pr.limb_num THEN <<>>
    ELSE RangeCheckConstraint(pr, Var(171, "fields", i - 1)) \o SubContext(pr, i + 1)

SubLimbs(pr) == {Var(171, "fields", i - 1) : i \in 1 .. pr.limb_num}

\* mul: q and r are the variables of Provable.witness (the struct check of a
\* Field is empty); the rest of mul is arithmetic and assertEquals
MulContext(pr) == <<>>
MulLimbs(pr) == {Var(184, "r", i - 1) : i \in 1 .. pr.limb_num}

\* div: q and r of Provable.witness, then this.mul(q, b) and this.add(.., r)
DivContext(pr) == MulContext(pr) \o AddContext(pr, 1)
DivLimbs(pr) ==
    {Var(225, "q", i - 1) : i \in 1 .. pr.limb_num}
    \cup {Var(225, "r", i - 1) : i \in 1 .. pr.limb_num}

\* a call together with the constraints it appended, in order, and the
\* variables that are the limbs of what it returned
TracedCall(o, res, ctx, limbs) == ValueCall(o, res) @@ [ctx |-> ctx, limbs |-> limbs]

AddTraced ==
    Invoke(TracedCall("add", Add(params, regs["this"], regs["a"], regs["b"]),
                      AddContext(params, 1), AddLimbs(params)))
SubTraced ==
    Invoke(TracedCall("sub", Sub(params, regs["this"], regs["a"], regs["b"]),
                      SubContext(params, 1), SubLimbs(params)))
MulTraced ==
    Invoke(TracedCall("mul", Mul(params, regs["this"], regs["a"], regs["b"]),
                      MulContext(params), MulLimbs(params)))
DivTraced ==
    Invoke(TracedCall("div", Div(params, regs["this"], regs["a"], regs["b"]),
                      DivContext(params), DivLimbs(params)))

NextContext ==
    \/ AddTraced
    \/ SubTraced
    \/ MulTraced
    \/ DivTraced

SpecContext == InitForge /\ [][NextContext]_vars

\* ------------------------------------------------------------------- laws
\* The tests of the algebraic laws build a modulus and up to three operands
\* with fromBigint and evaluate one expression made of several operations.
LawRegs == {"this", "a", "b", "c"}

LawInputs(pr) == {x \in 0 .. MaxLawInput : x <= pr.MAX}

InitLaws ==
    /\ params \in ScaledParams
    /\ given \in [LawRegs -> LawInputs(params)]
    /\ regs = [r \in LawRegs |-> FromBigint(params, given[r]).ret]
    /\ call = NoCall
    /\ pc = "call"

\* an operation applied to the outcomes of two subexpressions: a thrown
\* error leaves the expression at once, the left operand is evaluated first
AddOf(pr, this, x, y) ==
    IF x.status = "error" THEN x
    ELSE IF y.status = "error" THEN y
    ELSE Add(pr, this, x.ret, y.ret)

MulOf(pr, this, x, y) ==
    IF x.status = "error" THEN x
    ELSE IF y.status = "error" THEN y
    ELSE Mul(pr, this, x.ret, y.ret)

\* the two sides of a law and, when both returned, what equals makes of them
LawCall(o, l, r) ==
    [op |-> o, left |-> l, right |-> r,
     out |-> IF l.status = "error" THEN l
             ELSE IF r.status = "error" THEN r
             ELSE Returned(NoValue),
     flag |-> l.status = "ok" /\ r.status = "ok" /\ Equals(l.ret, r.ret)]

\* expect(modulo.add(a, b)).toStrictEqual(a) with b = fromBigint(0)
AddIdentityLaw ==
    Invoke(LawCall("addIdentity",
                   AddOf(params, regs["this"], Returned(regs["a"]), FromBigint(params, 0)),
                   Returned(regs["a"])))

\* equals(modulo.add(a, b), modulo.add(b, a))
AddCommutativityLaw ==
    Invoke(LawCall("addCommutativity",
                   Add(params, regs["this"], regs["a"], regs["b"]),
                   Add(params, regs["this"], regs["b"], regs["a"])))

\* equals(modulo.add(modulo.add(a, b), c), modulo.add(a, modulo.add(b, c)))
AddAssociativityLaw ==
    LET m == regs["this"]
        a == Returned(regs["a"])
        b == Returned(regs["b"])
        c == Returned(regs["c"])
    IN  Invoke(LawCall("addAssociativity",
                       AddOf(params, m, AddOf(params, m, a, b), c),
                       AddOf(params, m, a, AddOf(params, m, b, c))))

\* equals(modulo.mul(a, modulo.add(b, c)),
\*        modulo.add(modulo.mul(a, b), modulo.mul(a, c)))
MulDistributivityLaw ==
    LET m == regs["this"]
        a == Returned(regs["a"])
        b == Returned(regs["b"])
        c == Returned(regs["c"])
    IN  Invoke(LawCall("mulDistributivity",
                       MulOf(params, m, a, AddOf(params, m, b, c)),
                       AddOf(params, m, MulOf(params, m, a, b),
                                        MulOf(params, m, a, c))))

\* greaterThan, lessThan and equals asked of the same pair
ComparisonLaw ==
    Invoke([NoCall EXCEPT !.op = "comparison", !.out = Returned(NoValue)]
           @@ [gt |-> GreaterThan(params, regs["a"], regs["b"]),
               lt |-> LessThan(params, regs["a"], regs["b"]),
               eq |-> Equals(regs["a"], regs["b"])])

\* div(a, b) called on two receivers, regs["this"] and regs["c"]
DivReceiverLaw ==
    Invoke(LawCall("divReceiver",
                   Div(params, regs["this"], regs["a"], regs["b"]),
                   Div(params, regs["c"], regs["a"], regs["b"])))

NextLaws ==
    \/ AddIdentityLaw
    \/ AddCommutativityLaw
    \/ AddAssociativityLaw
    \/ MulDistributivityLaw
    \/ ComparisonLaw
    \/ DivReceiverLaw

SpecLaws == InitLaws /\ [][NextLaws]_vars

\* ------------------------------------------------------------------ store
\* The operations seen through their writes.  The store maps a name to the
\* object bound to it: the receiver and the operands ("this", "a", "b") and
\* the arrays and values a call allocates.  Every push and every element
\* assignment of the code is a write to the store; reads go through it.
NewObject(h, name, v) == (name :> v) @@ h
StorePush(h, dst, x) == [h EXCEPT ![dst].fields = Append(@, x)]
StoreSet(h, dst, i, x) == [h EXCEPT ![dst].fields[i] = x]

\* add, first loop: fields.push(...); rangeCheck(fields[i]) may throw
RECURSIVE AddStoreCarry(_, _, _, _, _, _, _)
AddStoreCarry(pr, h, dst, a, b, i, carry) ==
    IF i > pr.limb_num THEN h
    ELSE LET sum == FAdd(FAdd(h[a].fields[i], h[b].fields[i]), carry)
             c   == BoolToField(FGreaterThan(sum, FieldFrom(pr.mask)))
             h1  == StorePush(h, dst, FSub(sum, FMul(c, FieldFrom(pr.mask + 1))))
         IN  IF ~rangeCheck(pr, h1[dst].fields[i]) THEN h1
             ELSE AddStoreCarry(pr, h1, dst, a, b, i + 1, c)

\* add, third loop: fields[i] = diff.add(...), read from src, written to dst
RECURSIVE AddStoreBorrow(_, _, _, _, _, _, _, _)
AddStoreBorrow(pr, h, dst, src, this, ge, i, borrow) ==
    IF i > pr.limb_num THEN h
    ELSE LET diff == FSub(FSub(h[src].fields[i],
                               FMul(h[this].fields[i], BoolToField(ge))), borrow)
             bw   == BoolToField(FLessThan(diff, FieldFrom(0)))
         IN  AddStoreBorrow(pr, StoreSet(h, dst, i, FAdd(diff, FMul(bw, FieldFrom(pr.mask + 1)))),
                            dst, src, this, ge, i + 1, bw)

\* add whose third loop assigns a.fields[i]
AddStoreInPlace(pr, h, this, a, b) ==
    LET h1 == AddStoreCarry(pr, NewObject(h, "add.fields", NoValue), "add.fields", a, b, 1, 0)
    IN  IF Len(h1["add.fields"].fields) < pr.limb_num
           \/ ~AllRangeChecked(pr, h1["add.fields"].fields)
        THEN h1
        ELSE AddStoreBorrow(pr, h1, a, "add.fields", this,
                 AddIsGreaterOrEqual(pr, h1["add.fields"].fields, h1[this].fields, 1, FALSE),
                 1, 0)

\* the store after this.add(a, b); the result is the object "add.fields"
AddStore(pr, h, this, a, b) ==
    LET h1 == AddStoreCarry(pr, NewObject(h, "add.fields", NoValue), "add.fields", a, b, 1, 0)
    IN  IF Len(h1["add.fields"].fields) < pr.limb_num
           \/ ~AllRangeChecked(pr, h1["add.fields"].fields)
        THEN h1
        ELSE AddStoreBorrow(pr, h1, "add.fields", "add.fields", this,
                 AddIsGreaterOrEqual(pr, h1["add.fields"].fields, h1[this].fields, 1, FALSE),
                 1, 0)

\* sub: fields.push(...); rangeCheck(fields[i]) may throw
RECURSIVE SubStoreBorrow(_, _, _, _, _, _, _)
SubStoreBorrow(pr, h, dst, a, b, i, borrow) ==
    IF i > pr.limb_num THEN h
    ELSE LET diff == FSub(FSub(h[a].fields[i], h[b].fields[i]), borrow)
             bw   == BoolToField(~FLessThan(diff, FieldFrom(pr.mask + 1)))
             h1   == StorePush(h, dst, FAdd(diff, FMul(bw, FieldFrom(pr.mask + 1))))
         IN  IF ~rangeCheck(pr, h1[dst].fields[i]) THEN h1
             ELSE SubStoreBorrow(pr, h1, dst, a, b, i + 1, bw)

SubStore(pr, h, this, a, b) ==
    SubStoreBorrow(pr, NewObject(h, "sub.fields", NoValue), "sub.fields", a, b, 1, 0)

\* mul: the witness allocates q and r, delta is a new array whose elements
\* are assigned from X, Y, Q, R, P
MulStore(pr, h, this, a, b) ==
    LET w == MulWitness(pr, h[this], h[a], h[b])
    IN  IF w.status = "error" THEN h
        ELSE LET h1 == NewObject(NewObject(h, "mul.q", w.ret), "mul.r", w.rem)
             IN  NewObject(h1, "mul.delta",
                     BigIntValue(MulDelta(pr, h1[a].fields, h1[b].fields, h1["mul.q"].fields,
                                          h1["mul.r"].fields, h1[this].fields), 0))

\* div: the witness allocates q and r, then this.mul(q, b) and
\* this.add(this.mul(q, b), r) run on the same store
DivStore(pr, h, this, a, b) ==
    LET w == DivWitness(pr, h[a], h[b])
    IN  IF w.status = "error" THEN h
        ELSE LET h1 == NewObject(NewObject(h, "div.q", w.ret), "div.r", w.rem)
                 h2 == MulStore(pr, h1, this, "div.q", b)
             IN  IF Mul(pr, h1[this], h1["div.q"], h1[b]).status = "error" THEN h2
                 ELSE AddStore(pr, h2, this, "mul.r", "div.r")

\* mod(a) is this.div(a, this)
ModStore(pr, h, this, a) == DivStore(pr, h, this, a, this)

\* the comparators and equals fold into a local Bool and write nothing
CompareStore(pr, h, a, b) == h

\* a call that leaves the receiver and the operands as the store h has them
InvokeStore(c, h) ==
    /\ CanCall
    /\ call' = c
    /\ pc' = "done"
    /\ regs' = [r \in Regs |-> h[r]]
    /\ UNCHANGED <<params, given>>

AddOnStore ==
    InvokeStore(ValueCall("add", Add(params, regs["this"], regs["a"], regs["b"])),
                AddStore(params, regs, "this", "a", "b"))
SubOnStore ==
    InvokeStore(ValueCall("sub", Sub(params, regs["this"], regs["a"], regs["b"])),
                SubStore(params, regs, "this", "a", "b"))
MulOnStore ==
    InvokeStore(ValueCall("mul", Mul(params, regs["this"], regs["a"], regs["b"])),
                MulStore(params, regs, "this", "a", "b"))
DivOnStore ==
    InvokeStore(ValueCall("div", Div(params, regs["this"], regs["a"], regs["b"])),
                DivStore(params, regs, "this", "a", "b"))
ModOnStore ==
    InvokeStore(ValueCall("mod", Mod(params, regs["this"], regs["a"])),
                ModStore(params, regs, "this", "a"))
CompareOnStore ==
    \E o \in {"greaterThan", "greaterThanOrEqual", "lessThan", "lessThanOrEqual", "equals"} :
        InvokeStore(BoolCall(o, CASE o = "greaterThan" -> GreaterThan(params, regs["a"], regs["b"])
                                  [] o = "greaterThanOrEqual" ->
                                         GreaterThanOrEqual(params, regs["a"], regs["b"])
                                  [] o = "lessThan" -> LessThan(params, regs["a"], regs["b"])
                                  [] o = "lessThanOrEqual" ->
                                         LessThanOrEqual(params, regs["a"], regs["b"])
                                  [] o = "equals" -> Equals(regs["a"], regs["b"])),
                    CompareStore(params, regs, "a", "b"))

NextStore ==
    \/ AddOnStore
    \/ SubOnStore
    \/ MulOnStore
    \/ DivOnStore
    \/ ModOnStore
    \/ CompareOnStore

SpecStore == InitForge /\ [][NextStore]_vars

\* ------------------------------------------------------- add, loop by loop
\* add run one loop at a time on fromBigint values: the carry loop leaves
\* the raw sum in call.sums, the flag loop the decision in call.ge, the
\* subtraction loop and the constructor the returned value in call.out.
InitAdd ==
    /\ params \in ScaledParams
    /\ given \in [Regs -> LawInputs(params)]
    /\ regs = [r \in Regs |-> FromBigint(params, given[r]).ret]
    /\ call = NoCall
    /\ pc = "call"

AddCarryLoop ==
    /\ CanCall
    /\ LET sums == AddCarryPass(params, regs["a"].fields, regs["b"].fields, 1, 0)
       IN  IF AllRangeChecked(params, sums)
           THEN /\ call' = [op |-> "add", sums |-> sums, ge |-> FALSE, out |-> Thrown("", 0)]
                /\ pc' = "add.flag"
           ELSE /\ call' = [op |-> "add", sums |-> sums, ge |-> FALSE,
                            out |-> Thrown("rangeCheck", 0)]
                /\ pc' = "done"
    /\ UNCHANGED <<params, regs, given>>

AddFlagLoop ==
    /\ pc = "add.flag"
    /\ call' = [call EXCEPT !.ge = AddIsGreaterOrEqual(params, call.sums,
                                                       regs["this"].fields, 1, FALSE)]
    /\ pc' = "add.borrow"
    /\ UNCHANGED <<params, regs, given>>

AddBorrowLoop ==
    /\ pc = "add.borrow"
    /\ call' = [call EXCEPT !.out =
                   IF regs["this"].value = 0 THEN Thrown("Division by zero", 0)
                   ELSE Returned(BigIntValue(
                            AddBorrowPass(params, call.sums, regs["this"].fields, call.ge, 1, 0),
                            JsRem(regs["a"].value + regs["b"].value, regs["this"].value)))]
    /\ pc' = "done"
    /\ UNCHANGED <<params, regs, given>>

NextAdd ==
    \/ AddCarryLoop
    \/ AddFlagLoop
    \/ AddBorrowLoop

SpecAdd == InitAdd /\ [][NextAdd]_vars

\* ---------------------------------------------------- range-check gadgets
\* The gadgets are run on scaled bit widths (real bits -> scaled bits) that
\* keep every decomposition additive: 48 = 32 + 16, 116 = 64 + 52,
\* 128 = 64 + 64, 192 = 64 + 64 + 64, and 2^192 below the field order.
ScaledWidth(w) ==
    CASE w = 16 -> 1 [] w = 32 -> 2 [] w = 48 -> 3 [] w = 52 -> 2 [] w = 64 -> 3
      [] w = 116 -> 5 [] w = 128 -> 6 [] w = 192 -> 9

GadgetElems == 0 .. (GadgetPrime - 1)
GAdd(x, y) == (x + y) % GadgetPrime
GMul(x, y) == (x * y) % GadgetPrime

\* Gadgets.rangeCheck16 / 32 / 64 of o1js: satisfied exactly by x < 2^bits
PrimitiveRangeCheck(x, bits) == x < Pow2(ScaledWidth(bits))

\* the limb Gadgets.rangeCheck64 returns first: bits 52 .. 63 of x
RangeCheck64High(x) == x \div Pow2(ScaledWidth(52))

\* the field elements a witness piece may be, once Gadgets.rangeCheck<bits>
\* was asked of it
Pieces(bits) == {v \in GadgetElems : PrimitiveRangeCheck(v, bits)}

RangeCheck48Sat(x) ==
    \E x0 \in Pieces(32), x1 \in Pieces(16) :
        GAdd(x0, GMul(x1, Pow2(ScaledWidth(32)))) = x

\* rangeCheck116 without x52.assertEquals(0)
RangeCheck116NoHighLimb(x) ==
    \E x0 \in Pieces(64), x1 \in Pieces(64) :
        GAdd(x0, GMul(x1, Pow2(ScaledWidth(64)))) = x

RangeCheck116Sat(x) ==
    \E x0 \in Pieces(64), x1 \in Pieces(64) :
        /\ RangeCheck64High(x1) = 0
        /\ GAdd(x0, GMul(x1, Pow2(ScaledWidth(64)))) = x

RangeCheck128Sat(x) ==
    \E x0 \in Pieces(64), x1 \in Pieces(64) :
        GAdd(x0, GMul(x1, Pow2(ScaledWidth(64)))) = x

RangeCheck192Sat(x) ==
    \E x0 \in Pieces(64), x1 \in Pieces(64), x2 \in Pieces(64) :
        GAdd(GAdd(x0, GMul(x1, Pow2(ScaledWidth(64)))),
             GMul(x2, Pow2(ScaledWidth(128)))) = x

\* rangeCheck(x, bits): the switch; a width without a case adds no constraint
RangeCheckSat(x, bits) ==
    CASE bits = 32 -> PrimitiveRangeCheck(x, 32)
      [] bits = 48 -> RangeCheck48Sat(x)
      [] bits = 64 -> PrimitiveRangeCheck(x, 64)
      [] bits = 116 -> RangeCheck116Sat(x)
      [] bits = 128 -> RangeCheck128Sat(x)
      [] bits = 192 -> RangeCheck192Sat(x)
      [] OTHER -> TRUE

InitGadget ==
    /\ params \in ScaledParams
    /\ regs = [r \in Regs |-> NoValue]
    /\ given = [r \in Regs |-> 0]
    /\ call = NoCall
    /\ pc = "call"

\* rangeCheck(x, Number(params.limb_size)) on a field element x
RangeCheckCall ==
    /\ pc = "call"
    /\ \E x \in GadgetElems :
          call' = [op |-> "rangeCheck", x |-> x, bits |-> params.width,
                   sat |-> RangeCheckSat(x, params.width)]
    /\ pc' = "done"
    /\ UNCHANGED <<params, regs, given>>

\* the parameter table of the older generic file
Part000ParamList == {"384_6", "2048_18"}

\* add and sub of the older generic file: Gadgets.rangeCheck64(fields[i])
\* whatever the limb_size of the parameter set
RangeCheck64Call ==
    /\ pc = "call"
    /\ \E k \in Part000ParamList : params = Scaled(BigIntParams(k))
    /\ \E x \in GadgetElems :
          call' = [op |-> "Gadgets.rangeCheck64", x |-> x, bits |-> params.width,
                   sat |-> PrimitiveRangeCheck(x, 64)]
    /\ pc' = "done"
    /\ UNCHANGED <<params, regs, given>>

NextGadget ==
    \/ RangeCheckCall
    \/ RangeCheck64Call

SpecGadget == InitGadget /\ [][NextGadget]_vars

\* ------------------------------------- the older generic file (part_000)
\* the two entries of its table
Part000Params(key) ==
    CASE key = "384_6"   -> Param(6, 64, 64, 384)
      [] key = "2048_18" -> Param(18, 116, 116, 2088)

\* A gadget of a fixed bit width run on a limb of the layout: the width is
\* scaled as the limb is (64 bits are a whole limb of a 64-bit layout and
\* the low part of a limb of a 116-bit layout).
GadgetAccepts(pr, x, bits) == x < Pow2((bits * pr.limb_size) \div pr.width)

\* add and sub call Gadgets.rangeCheck64(fields[i]) on every limb
Part000Add(pr, this, a, b) ==
    LET sums == AddCarryPass(pr, a.fields, b.fields, 1, 0)
        ge   == AddIsGreaterOrEqual(pr, sums, this.fields, 1, FALSE)
        f    == AddBorrowPass(pr, sums, this.fields, ge, 1, 0)
    IN  IF \E i \in 1 .. Len(sums) : ~GadgetAccepts(pr, sums[i], 64)
        THEN Thrown("rangeCheck", 0)
        ELSE IF this.value = 0 THEN Thrown("Division by zero", 0)
        ELSE Returned(BigIntValue(f, JsRem(a.value + b.value, this.value)))

Part000Sub(pr, this, a, b) ==
    LET f == SubBorrowPass(pr, a.fields, b.fields, 1, 0)
    IN  IF \E i \in 1 .. Len(f) : ~GadgetAccepts(pr, f[i], 64)
        THEN Thrown("rangeCheck", 0)
        ELSE IF this.value = 0 THEN Thrown("Division by zero", 0)
        ELSE Returned(BigIntValue(f, JsRem(a.value - b.value, this.value)))

Part000Div(pr, this, a, b) ==
    LET x == ToBigint(pr, a)
        y == ToBigint(pr, b)
    IN  IF y = 0 THEN Thrown("Division by zero", 0)
        ELSE LET r  == JsRem(x, y)
                 q  == JsDiv(x - r, y)
                 qv == FromBigint(pr, q)
                 rv == FromBigint(pr, r)
             IN  IF qv.status = "error" THEN qv
                 ELSE IF rv.status = "error" THEN rv
                 ELSE LET qb == Mul(pr, this, qv.ret, b)
                      IN  IF qb.status = "error" THEN qb
                          ELSE LET s == Part000Add(pr, this, qb.ret, rv.ret)
                               IN  IF s.status = "error" THEN s
                                   ELSE IF Equals(s.ret, a) THEN Returned2(qv.ret, rv.ret)
                                   ELSE Thrown("assertTrue", 0)

Part000Mod(pr, this, a) ==
    LET d == Part000Div(pr, this, a, this)
    IN  IF d.status = "error" THEN d ELSE Returned(d.rem)

\* ------------------------------- the hand-written classes (BigInt.ts)
\* BigInt384 and BigInt2048 are named by the key of their entry of params
HandParams(bits) ==
    CASE bits = 384  -> Param(6, 64, 64, 384)
      [] bits = 2048 -> Param(18, 116, 116, 2088)

\* The operations take the key of the class and pr, its entry of params run
\* on the scaled layout.  The message of the upper bound carries a literal
\* bit count, here on the scale of the layout.
HandFromBigint(bits, pr, x) ==
    IF x < 0 THEN Thrown("Input must be non-negative.", 0)
    ELSE IF x > pr.MAX
         THEN Thrown("Input exceeds N-bit size limit.",
                     ((IF bits = 384 THEN 384 ELSE 2088) * Capacity(pr))
                         \div (HandParams(bits).limb_num * HandParams(bits).limb_size))
    ELSE Returned(BigIntValue(FromBigintFields(pr, x, pr.limb_num), x))

HandToBigint(bits, pr, v) == ToBigintFrom(pr, v.fields, 1, 0)

\* BigInt384 calls Gadgets.rangeCheck64 and BigInt2048 its own rangeCheck116
\* (a 64-bit piece and a piece whose bits above 52 are asserted zero)
HandRangeChecked(bits, pr, f) ==
    \A i \in 1 .. Len(f) :
        IF bits = 384 THEN GadgetAccepts(pr, f[i], 64)
        ELSE GadgetAccepts(pr, f[i], 64 + 52)

\* the shadow is computed at once in both classes (Unconstrained.from in
\* BigInt384, Unconstrained.witness in BigInt2048)
HandAdd(bits, pr, this, a, b) ==
    LET sums == AddCarryPass(pr, a.fields, b.fields, 1, 0)
        ge   == AddIsGreaterOrEqual(pr, sums, this.fields, 1, FALSE)
        f    == AddBorrowPass(pr, sums, this.fields, ge, 1, 0)
    IN  IF ~HandRangeChecked(bits, pr, sums) THEN Thrown("rangeCheck", 0)
        ELSE IF this.value = 0 THEN Thrown("Division by zero", 0)
        ELSE Returned(BigIntValue(f, JsRem(a.value + b.value, this.value)))

HandSub(bits, pr, this, a, b) ==
    LET f == SubBorrowPass(pr, a.fields, b.fields, 1, 0)
    IN  IF ~HandRangeChecked(bits, pr, f) THEN Thrown("rangeCheck", 0)
        ELSE IF this.value = 0 THEN Thrown("Division by zero", 0)
        ELSE Returned(BigIntValue(f, JsRem(a.value - b.value, this.value)))

\* q and r of the witness block go through the fromBigint of the class; the
\* loops run over the literal limb count and shift of the class
HandMul(bits, pr, this, a, b) ==
    LET xy == HandToBigint(bits, pr, a) * HandToBigint(bits, pr, b)
        p0 == HandToBigint(bits, pr, this)
    IN  IF p0 = 0 THEN Thrown("Division by zero", 0)
        ELSE LET q  == JsDiv(xy, p0)
                 r  == xy - q * p0
                 qv == HandFromBigint(bits, pr, q)
                 rv == HandFromBigint(bits, pr, r)
             IN  IF qv.status = "error" THEN qv
                 ELSE IF rv.status = "error" THEN rv
                 ELSE LET delta == MulDelta(pr, a.fields, b.fields, qv.ret.fields,
                                            rv.ret.fields, this.fields)
                      IN  IF MulAsserts(pr, delta, MulCarries(pr, delta, 1, 0))
                          THEN Returned(rv.ret)
                          ELSE Thrown("assertEquals", 0)

HandDiv(bits, pr, this, a, b) ==
    LET x == HandToBigint(bits, pr, a)
        y == HandToBigint(bits, pr, b)
    IN  IF y = 0 THEN Thrown("Division by zero", 0)
        ELSE LET r  == JsRem(x, y)
                 q  == JsDiv(x - r, y)
                 qv == HandFromBigint(bits, pr, q)
                 rv == HandFromBigint(bits, pr, r)
             IN  IF qv.status = "error" THEN qv
                 ELSE IF rv.status = "error" THEN rv
                 ELSE LET qb == HandMul(bits, pr, this, qv.ret, b)
                      IN  IF qb.status = "error" THEN qb
                          ELSE LET s == HandAdd(bits, pr, this, qb.ret, rv.ret)
                               IN  IF s.status = "error" THEN s
                                   ELSE IF Equals(s.ret, a) THEN Returned2(qv.ret, rv.ret)
                                   ELSE Thrown("assertTrue", 0)

HandMod(bits, pr, this, a) ==
    LET d == HandDiv(bits, pr, this, a, this)
    IN  IF d.status = "error" THEN d ELSE Returned(d.rem)

HandCompare(bits, pr, o, a, b) ==
    LET gt == GreaterFold(pr, a.fields, b.fields, 1, FALSE)
        lt == LessFold(pr, a.fields, b.fields, 1, FALSE)
    IN  CASE o = "greaterThan"        -> gt
          [] o = "greaterThanOrEqual" -> gt \/ Equals(a, b)
          [] o = "lessThan"           -> lt
          [] o = "lessThanOrEqual"    -> lt \/ Equals(a, b)
          [] o = "equals"             -> Equals(a, b)

\* ------------------------------------ generic against hand-written class
\* createBigIntClass(BigIntParams[key]) exists in two files; BigInt384 is
\* paired with the key "384_6" and BigInt2048 with the key "2048_18".
GenericFiles == {"BigIntGeneric.ts", "part_000"}
ClassPairs == {<<"384_6", 384>>, <<"2048_18", 2048>>}

GenericLayout(file, key) ==
    IF file = "part_000" THEN Scaled(Part000Params(key)) ELSE Scaled(BigIntParams(key))

\* The same integers are handed to the fromBigint of both classes; the
\* layout and the values of the hand-written class are kept under
\* regs["hand"].
InitAgree ==
    \E file \in GenericFiles, pair \in ClassPairs :
        /\ params = GenericLayout(file, pair[1])
        /\ given \in [Regs -> LawInputs(params)]
        /\ regs = [r \in Regs \cup {"hand"} |->
                      IF r = "hand"
                      THEN [h \in Regs \cup {"params"} |->
                               IF h = "params" THEN Scaled(HandParams(pair[2]))
                               ELSE HandFromBigint(pair[2], Scaled(HandParams(pair[2])),
                                                   given[h]).ret]
                      ELSE FromBigint(params, given[r]).ret]
        /\ call = NoCall
        /\ pc = "call"

\* One operation run on the generic class of a file (left) and on the
\* hand-written class paired with it (right); lnum, rnum and lflag, rflag
\* hold a returned integer or boolean.
Agree(c) ==
    /\ call' = c
    /\ pc' = "done"
    /\ UNCHANGED <<params, regs, given>>

FromBigintAgree ==
    /\ pc = "call"
    /\ \E file \in GenericFiles, pair \in ClassPairs, x \in InputSet(params) :
           /\ params = GenericLayout(file, pair[1])
           /\ Agree([op |-> "fromBigint", file |-> file,
                     left |-> FromBigint(params, x),
                     right |-> HandFromBigint(pair[2], regs["hand"]["params"], x),
                     lnum |-> 0, rnum |-> 0, lflag |-> FALSE, rflag |-> FALSE])

ToBigintAgree ==
    /\ pc = "call"
    /\ \E file \in GenericFiles, pair \in ClassPairs, r \in Regs :
           /\ params = GenericLayout(file, pair[1])
           /\ Agree([op |-> "toBigint", file |-> file,
                     left |-> Returned(NoValue), right |-> Returned(NoValue),
                     lnum |-> ToBigint(params, regs[r]),
                     rnum |-> HandToBigint(pair[2], regs["hand"]["params"], regs["hand"][r]),
                     lflag |-> FALSE, rflag |-> FALSE])

AddAgree ==
    /\ pc = "call"
    /\ \E file \in GenericFiles, pair \in ClassPairs :
           /\ params = GenericLayout(file, pair[1])
           /\ Agree([op |-> "add", file |-> file,
                     left |-> IF file = "part_000"
                              THEN Part000Add(params, regs["this"], regs["a"], regs["b"])
                              ELSE Add(params, regs["this"], regs["a"], regs["b"]),
                     right |-> HandAdd(pair[2], regs["hand"]["params"], regs["hand"]["this"],
                                       regs["hand"]["a"],
                                       regs["hand"]["b"]),
                     lnum |-> 0, rnum |-> 0, lflag |-> FALSE, rflag |-> FALSE])

SubAgree ==
    /\ pc = "call"
    /\ \E file \in GenericFiles, pair \in ClassPairs :
           /\ params = GenericLayout(file, pair[1])
           /\ Agree([op |-> "sub", file |-> file,
                     left |-> IF file = "part_000"
                              THEN Part000Sub(params, regs["this"], regs["a"], regs["b"])
                              ELSE Sub(params, regs["this"], regs["a"], regs["b"]),
                     right |-> HandSub(pair[2], regs["hand"]["params"], regs["hand"]["this"],
                                       regs["hand"]["a"],
                                       regs["hand"]["b"]),
                     lnum |-> 0, rnum |-> 0, lflag |-> FALSE, rflag |-> FALSE])

\* mul, the comparators, fromBigint and toBigint have one text in both
\* generic files
MulAgree ==
    /\ pc = "call"
    /\ \E file \in GenericFiles, pair \in ClassPairs :
           /\ params = GenericLayout(file, pair[1])
           /\ Agree([op |-> "mul", file |-> file,
                     left |-> Mul(params, regs["this"], regs["a"], regs["b"]),
                     right |-> HandMul(pair[2], regs["hand"]["params"], regs["hand"]["this"],
                                       regs["hand"]["a"],
                                       regs["hand"]["b"]),
                     lnum |-> 0, rnum |-> 0, lflag |-> FALSE, rflag |-> FALSE])

DivAgree ==
    /\ pc = "call"
    /\ \E file \in GenericFiles, pair \in ClassPairs :
           /\ params = GenericLayout(file, pair[1])
           /\ Agree([op |-> "div", file |-> file,
                     left |-> IF file = "part_000"
                              THEN Part000Div(params, regs["this"], regs["a"], regs["b"])
                              ELSE Div(params, regs["this"], regs["a"], regs["b"]),
                     right |-> HandDiv(pair[2], regs["hand"]["params"], regs["hand"]["this"],
                                       regs["hand"]["a"],
                                       regs["hand"]["b"]),
                     lnum |-> 0, rnum |-> 0, lflag |-> FALSE, rflag |-> FALSE])

ModAgree ==
    /\ pc = "call"
    /\ \E file \in GenericFiles, pair \in ClassPairs :
           /\ params = GenericLayout(file, pair[1])
           /\ Agree([op |-> "mod", file |-> file,
                     left |-> IF file = "part_000"
                              THEN Part000Mod(params, regs["this"], regs["a"])
                              ELSE Mod(params, regs["this"], regs["a"]),
                     right |-> HandMod(pair[2], regs["hand"]["params"], regs["hand"]["this"],
                                       regs["hand"]["a"]),
                     lnum |-> 0, rnum |-> 0, lflag |-> FALSE, rflag |-> FALSE])

CompareAgree ==
    /\ pc = "call"
    /\ \E file \in GenericFiles, pair \in ClassPairs,
          o \in {"greaterThan", "greaterThanOrEqual", "lessThan", "lessThanOrEqual", "equals"} :
           /\ params = GenericLayout(file, pair[1])
           /\ Agree([op |-> o, file |-> file,
                     left |-> Returned(NoValue), right |-> Returned(NoValue),
                     lnum |-> 0, rnum |-> 0,
                     lflag |-> CASE o = "greaterThan" -> GreaterThan(params, regs["a"], regs["b"])
                                 [] o = "greaterThanOrEqual" ->
                                        GreaterThanOrEqual(params, regs["a"], regs["b"])
                                 [] o = "lessThan" -> LessThan(params, regs["a"], regs["b"])
                                 [] o = "lessThanOrEqual" ->
                                        LessThanOrEqual(params, regs["a"], regs["b"])
                                 [] o = "equals" -> Equals(regs["a"], regs["b"]),
                     rflag |-> HandCompare(pair[2], regs["hand"]["params"], o, regs["hand"]["a"],
                                           regs["hand"]["b"])])

NextAgree ==
    \/ FromBigintAgree
    \/ ToBigintAgree
    \/ AddAgree
    \/ SubAgree
    \/ MulAgree
    \/ DivAgree
    \/ ModAgree
    \/ CompareAgree

SpecAgree == InitAgree /\ [][NextAgree]_vars

\* ----------------------------------------------------------------- claims
\* the integers the limbs of the receiver and of the operands encode
IntThis == ToBigint(params, regs["this"])
IntA == ToBigint(params, regs["a"])
IntB == ToBigint(params, regs["b"])
IntRet == ToBigint(params, call.out.ret)
IntRem == ToBigint(params, call.out.rem)
Ok == call.out.status = "ok"

\* C1: round trip - toBigint of a value built by fromBigint(x) gives x back,
\* under every descriptor of the parameter table.
C1_RoundTrip ==
    call.op = "toBigint" => call.num = given[call.arg]

\* C2: fromBigint(x) throws 'Input must be non-negative.' exactly when x < 0,
\* throws 'Input exceeds N-bit size limit.' with N = limb_num * limb_size
\* exactly when x > MAX, and returns a value for every 0 <= x <= MAX.
C2_FromBigintBounds ==
    call.op = "fromBigint" =>
        /\ (call.x < 0) <=> (call.out.status = "error" /\ call.out.err = "Input must be non-negative.")
        /\ (call.x > params.MAX) <=>
               (/\ call.out.status = "error"
                /\ call.out.err = "Input exceeds N-bit size limit."
                /\ call.out.bits = params.limb_num * params.limb_size)
        /\ (0 <= call.x /\ call.x <= params.MAX) <=> Ok
        /\ Ok => (regs[call.arg] = call.out.ret /\ call.out.ret.value = call.x
                   /\ Len(call.out.ret.fields) = params.limb_num)

C2_Witness ==
    call.op = "fromBigint" /\ call.x = params.MAX /\ Ok /\ regs[call.arg].value = params.MAX

\* C3: for m >= 1 and a, b < m, add returns a value that encodes (a + b) mod m.
C3_AddReduced ==
    (call.op = "add" /\ IntThis >= 1 /\ IntA < IntThis /\ IntB < IntThis) =>
        (Ok /\ IntRet = (IntA + IntB) % IntThis)

\* C4: for m >= 1 and arbitrary in-range a, b, add returns a value that
\* encodes (a + b) mod m.
C4_AddArbitrary ==
    (call.op = "add" /\ IntThis >= 1) => (Ok /\ IntRet = (IntA + IntB) % IntThis)

\* C5 (as stated): for m >= 1 and all in-range a, b, mul returns without
\* failure a value that encodes (a * b) mod m.
C5_MulTotal ==
    (call.op = "mul" /\ IntThis >= 1) => (Ok /\ IntRet = (IntA * IntB) % IntThis)

\* the witnessed quotient is accepted by fromBigint and fits the limbs
QuotientFits(q) == q <= params.MAX /\ q < Pow2(params.limb_num * params.limb_size)

\* C5 (amended): for m >= 1 and all in-range a, b whose quotient
\* floor(a * b / m) is at most MAX and fits limb_num limbs, mul returns
\* without failure a value that encodes (a * b) mod m.
C5_MulWhenQuotientFits ==
    (call.op = "mul" /\ IntThis >= 1 /\ QuotientFits((IntA * IntB) \div IntThis)) =>
        (Ok /\ IntRet = (IntA * IntB) % IntThis)

C5_Witness ==
    /\ call.op = "mul" /\ Ok
    /\ IntThis >= 2 /\ IntA * IntB > IntThis
    /\ IntRet >= 1 /\ IntRet = (IntA * IntB) % IntThis

\* C6: a witness assignment (q, r, carries) satisfies the constraints of mul
\* only if a * b - q * m - r = 0 over the integers.
C6_MulSound ==
    (call.op = "mulForge" /\ Ok) => (IntA * IntB - IntRet * IntThis - IntRem = 0)

\* C7: whenever div returns {q, r}: q = floor(a / b), r = a mod b,
\* q * b + r = a and 0 <= r < b.
C7_DivIdentity ==
    (call.op = "div" /\ Ok) =>
        /\ IntB > 0
        /\ IntRet = IntA \div IntB
        /\ IntRem = IntA % IntB
        /\ IntRet * IntB + IntRem = IntA
        /\ 0 <= IntRem /\ IntRem < IntB

C7_Witness ==
    call.op = "div" /\ Ok /\ IntRet >= 2 /\ IntRem >= 1 /\ IntB >= 2

\* C8: for m >= 1, div fails when b = 0 and in no other case.
C8_DivFailsOnlyOnZero ==
    (call.op = "div" /\ IntThis >= 1) => ((call.out.status = "error") <=> (IntB = 0))

\* C9: for m >= 1 and every in-range a, mod returns a value that encodes a mod m.
C9_ModReduces ==
    (call.op = "mod" /\ IntThis >= 1) => (Ok /\ IntRet = IntA % IntThis)

LimbsInRange(v) ==
    /\ Len(v.fields) = params.limb_num
    /\ \A i \in 1 .. Len(v.fields) : 0 <= v.fields[i] /\ v.fields[i] <= params.mask

ReturnsValue == call.op \in {"fromBigint", "add", "sub", "mul", "div"} /\ Ok

\* C11: every value returned by fromBigint, add, sub, mul or div (quotient
\* and remainder) has limb_num limbs, each in [0, mask].
C11_LimbRange ==
    ReturnsValue =>
        /\ LimbsInRange(call.out.ret)
        /\ (call.op = "div" => LimbsInRange(call.out.rem))

\* C12: every value returned by fromBigint, add, sub, mul or div has a shadow
\* integer equal to the integer its limbs encode, and the shadow lies in
\* [0, MAX].
ShadowConsistent(v) ==
    v.value = ToBigint(params, v) /\ 0 <= v.value /\ v.value <= params.MAX

C12_ShadowConsistency ==
    ReturnsValue =>
        /\ ShadowConsistent(call.out.ret)
        /\ (call.op = "div" => ShadowConsistent(call.out.rem))

\* C13: add fails when a + b does not fit limb_num limbs and sub fails when
\* a < b; neither returns a value reduced modulo 2^(limb_num * limb_size).
C13_NoSilentWraparound ==
    /\ (call.op = "add" /\ IntA + IntB >= Pow2(Capacity(params))) => ~Ok
    /\ (call.op = "sub" /\ IntA < IntB) => ~Ok

\* the constraint context holds a range check at the limb width on variable v
RangeChecked(v) ==
    \E k \in 1 .. Len(call.ctx) :
        /\ call.ctx[k].gadget = "rangeCheck"
        /\ call.ctx[k].bits = params.width
        /\ call.ctx[k].var = v

\* C14: when add, sub, mul or div returns, the constraint context holds a
\* range check at width limb_size for every limb of every returned value.
C14_RangeChecksPrecedeReturn ==
    (call.op \in {"add", "sub", "mul", "div"} /\ Ok) =>
        \A v \in call.limbs : RangeChecked(v)

\* C15: for all a, b with limbs in [0, mask], exactly one of
\* greaterThan(a, b), lessThan(a, b), equals(a, b) is true.
C15_Trichotomy ==
    (call.op = "comparison" /\ LimbsInRange(regs["a"]) /\ LimbsInRange(regs["b"])) =>
        /\ call.gt \/ call.lt \/ call.eq
        /\ ~(call.gt /\ call.lt)
        /\ ~(call.gt /\ call.eq)
        /\ ~(call.lt /\ call.eq)

C15_Witness ==
    /\ call.op = "comparison" /\ call.lt /\ ~call.gt /\ ~call.eq
    /\ regs["a"].fields[1] > regs["b"].fields[1]

\* C16: for all a, b with limbs in [0, mask] and A, B the integers they
\* encode: greaterThan iff A > B, lessThan iff A < B, greaterThanOrEqual iff
\* A >= B, lessThanOrEqual iff A <= B.
C16_ComparatorsAgree ==
    (LimbsInRange(regs["a"]) /\ LimbsInRange(regs["b"])) =>
        /\ call.op = "greaterThan" => (call.flag <=> IntA > IntB)
        /\ call.op = "lessThan" => (call.flag <=> IntA < IntB)
        /\ call.op = "greaterThanOrEqual" => (call.flag <=> IntA >= IntB)
        /\ call.op = "lessThanOrEqual" => (call.flag <=> IntA <= IntB)

C16_Witness ==
    /\ call.op = "greaterThanOrEqual" /\ call.flag
    /\ params.limb_num = LimbNumCap
    /\ regs["a"].fields[1] < regs["b"].fields[1]
    /\ regs["a"].fields[2] < regs["b"].fields[2]
    /\ IntA > IntB

\* C17: for every modulus m >= 1 and every a < m, m.add(a, fromBigint(0))
\* returns a value with the limbs and the shadow of a.
C17_AddIdentity ==
    (call.op = "addIdentity" /\ IntThis >= 1 /\ IntA < IntThis) =>
        /\ call.left.status = "ok"
        /\ call.left.ret.fields = regs["a"].fields
        /\ call.left.ret.value = regs["a"].value

\* C18: for every modulus m >= 1 and all a, b, c < m,
\* equals(m.add(m.add(a, b), c), m.add(a, m.add(b, c))) is true.
C18_AddAssociativity ==
    (call.op = "addAssociativity" /\ IntThis >= 1
        /\ IntA < IntThis /\ IntB < IntThis /\ ToBigint(params, regs["c"]) < IntThis) =>
        (Ok /\ call.flag)

\* C19 (as stated): for every modulus m and all in-range a, b, m.add(a, b)
\* and m.add(b, a) return identical limbs and equals of the two is true.
C19_AddCommutativity ==
    call.op = "addCommutativity" =>
        (Ok /\ call.left.ret.fields = call.right.ret.fields /\ call.flag)

\* C19 (amended): for every modulus m built from an integer other than 0 and
\* all in-range a, b, m.add(a, b) and m.add(b, a) both return, their limbs
\* are identical and equals of the two is true.
C19_AddCommutativityNonZeroModulus ==
    (call.op = "addCommutativity" /\ given["this"] # 0) =>
        (Ok /\ call.left.ret.fields = call.right.ret.fields /\ call.flag)

C19_Witness ==
    /\ call.op = "addCommutativity" /\ given["this"] # 0
    /\ Ok /\ call.flag
    /\ regs["a"].fields[1] = 1 /\ regs["b"].fields[1] = 1
    /\ IntA > IntB
    /\ call.left.ret.fields # regs["a"].fields
    /\ call.left.ret.fields # regs["b"].fields

\* C20: for every modulus m >= 1 and all a, b, c < m,
\* equals(m.mul(a, m.add(b, c)), m.add(m.mul(a, b), m.mul(a, c))) is true.
C20_MulDistributivity ==
    (call.op = "mulDistributivity" /\ IntThis >= 1
        /\ IntA < IntThis /\ IntB < IntThis /\ ToBigint(params, regs["c"]) < IntThis) =>
        (Ok /\ call.flag)

\* the receiver and the operands as fromBigint built them
Constructed == [r \in Regs |-> FromBigint(params, given[r]).ret]

\* C21: after any call of add, sub, mul, div, mod or a comparator, whether
\* it returned or failed, the limbs and the shadow of the receiver and of
\* every operand are what they were before the call.
C21_OperandsNotMutated ==
    pc = "done" => regs = Constructed

C21_Witness ==
    /\ pc = "done" /\ call.op = "add" /\ Ok
    /\ regs = Constructed
    /\ call.out.ret.fields # regs["a"].fields
    /\ call.out.ret.fields # AddCarryPass(params, regs["a"].fields, regs["b"].fields, 1, 0)

\* the raw sum of add, read as a limb_num-limb number
RawSum == ToBigintFrom(params, call.sums, 1, 0)

\* C22: after the carry pass add decides to subtract the modulus if and only
\* if the raw sum is >= this.
C22_SubtractionDecision ==
    (pc = "add.borrow" /\ call.op = "add") => (call.ge <=> RawSum >= IntThis)

\* C23: when add applies the subtraction to a raw sum S >= this, the returned
\* limbs are those of S - this.
C23_ConditionalSubtraction ==
    (pc = "done" /\ call.op = "add" /\ Ok /\ call.ge /\ RawSum >= IntThis) =>
        call.out.ret.fields = FromBigintFields(params, RawSum - IntThis, params.limb_num)

\* C24: every entry of the BigIntParams table has mask = 2^limb_size - 1 and
\* MAX = 2^(limb_num * limb_size) - 1 (checked on the entry in use, as exact
\* bit counts).
C24_TableConsistent ==
    \A k \in BigIntParamList :
        params = Scaled(BigIntParams(k)) =>
            /\ BigIntParams(k).mask_bits = BigIntParams(k).limb_size
            /\ BigIntParams(k).max_bits = BigIntParams(k).limb_num * BigIntParams(k).limb_size

\* C25: for each width w in {32, 48, 64, 116, 128, 192} and every field
\* value x, the constraints of rangeCheck(x, w) are satisfiable if and only
\* if 0 <= x < 2^w.
C25_RangeCheckExact ==
    (call.op = "rangeCheck" /\ call.bits \in {32, 48, 64, 116, 128, 192}) =>
        (call.sat <=> (0 <= call.x /\ call.x < Pow2(ScaledWidth(call.bits))))

C25_Witness ==
    /\ call.op = "rangeCheck" /\ call.bits = 116 /\ call.sat
    /\ call.x = Pow2(ScaledWidth(116)) - 1

\* C26: in every generic implementation add and sub range-check a stored
\* limb at the limb_size of the parameter set in use, so a stored limb v
\* passes exactly when 0 <= v <= mask.
C26_ConfiguredWidth ==
    call.op \in {"rangeCheck", "Gadgets.rangeCheck64"} =>
        (call.sat <=> (0 <= call.x /\ call.x <= Pow2(ScaledWidth(call.bits)) - 1))

\* C27: for fixed in-range a and b the outcome of this.div(a, b), success or
\* failure and the returned quotient and remainder, is the same for every
\* receiver.
C27_DivReceiverIndependent ==
    call.op = "divReceiver" =>
        /\ call.left.status = call.right.status
        /\ call.left.ret.fields = call.right.ret.fields
        /\ call.left.rem.fields = call.right.rem.fields

\* C28: equals(a, b) is true exactly when a.fields[i] = b.fields[i] for all
\* i < limb_num; two values with equal limbs and different shadows compare
\* equal.
C28_EqualsLimbWise ==
    call.op = "equals" =>
        (call.flag <=>
            \A i \in 1 .. params.limb_num : regs["a"].fields[i] = regs["b"].fields[i])

C28_Witness ==
    /\ call.op = "equals" /\ call.flag
    /\ regs["a"].fields = regs["b"].fields
    /\ regs["a"].value # regs["b"].value

\* C29: for in-range a, b and receiver m, mul fails when m = 0 or when
\* floor(a * b / m) > MAX; in every other case it returns r with
\* 0 <= r < m and r = (a * b) mod m.
C29_MulDomain ==
    call.op = "mul" =>
        IF IntThis = 0 \/ (IntA * IntB) \div IntThis > params.MAX
        THEN ~Ok
        ELSE Ok /\ IntRet = (IntA * IntB) % IntThis /\ 0 <= IntRet /\ IntRet < IntThis

\* the operations the two classes are compared on
AgreeOps ==
    {"fromBigint", "toBigint", "add", "sub", "mul", "div", "mod", "greaterThan",
     "greaterThanOrEqual", "lessThan", "lessThanOrEqual", "equals"}

\* C30: for every operation and all inputs, createBigIntClass(BigIntParams[
\* '384_6']) and BigInt384 produce the same limbs and the same failure
\* outcomes, and likewise createBigIntClass(BigIntParams['2048_18']) and
\* BigInt2048.
C30_ClassesAgree ==
    (pc = "done" /\ call.op \in AgreeOps) =>
        /\ call.left.status = call.right.status
        /\ call.left.err = call.right.err
        /\ call.left.bits = call.right.bits
        /\ call.left.ret.fields = call.right.ret.fields
        /\ call.left.rem.fields = call.right.rem.fields
        /\ call.lnum = call.rnum
        /\ call.lflag = call.rflag

====
